---- MODULE Spec2Model ----
(***************************************************************************)
(* A model of grafiska's resource pool (src/pool.rs) and of the 32-bit     *)
(* resource ids it hands out (src/lib.rs).                                 *)
(*                                                                         *)
(* The pool owns `resources` (a Vec of Option<Resource>), `free_queue`     *)
(* (a VecDeque of u32) and `unique_counter`.  The remaining variables      *)
(* record what a caller of the pool observes: the build's assertion mode,  *)
(* the argument given to Pool::new, the handles the caller holds, and the  *)
(* last call with its argument and result.                                 *)
(***************************************************************************)
EXTENDS Integers, Sequences, FiniteSets

VARIABLES
    status,          \* "none": no pool yet; "ok": pool constructed; "panic": a call panicked
    debug,           \* TRUE iff the build has debug assertions (debug_assert_eq! is live)
    num,             \* the argument of Pool::new
    resources,       \* Pool::resources: its length and its occupied entries
    free_queue,      \* Pool::free_queue, front first, as runs of consecutive ids
    unique_counter,  \* Pool::unique_counter
    live,            \* ids of the handles returned by alloc and not yet given to destroy,
                     \* oldest first, as runs of consecutive ids
    freed,           \* handles destroyed while live and not handed out again, oldest first
    nalloc,          \* number of alloc calls that returned a handle
    ndestroy,        \* number of destroy calls
    op,              \* the last call
    arg,             \* its argument
    ret              \* its result

vars == <<status, debug, num, resources, free_queue, unique_counter,
          live, freed, nalloc, ndestroy, op, arg, ret>>

poolVars == <<resources, free_queue, unique_counter>>

----------------------------------------------------------------------------
(* Bounds of the model. *)

\* Pool::new is tried with every capacity 0 .. MaxNum in Spec.
MaxNum == 3
\* Handles 0 .. MaxHandle are given to destroy, lookup and lookup_mut.
MaxHandle == 5
\* At most MaxDestroys destroy calls are made on one pool.
MaxDestroys == 4
\* SpecNew tries Pool::new with 0 .. MaxNewNum and with every capacity within
\* NewMargin of MAX_POOL_SIZE.
MaxNewNum == 48
NewMargin == 2
\* SpecDrained starts from pools with at most MaxRemaining ids left in the free-list.
MaxRemaining == 2
\* SpecCodec takes the 16-bit values within Edge of 0, 2^8, 2^15 and 2^16 - 1.
Edge == 1

----------------------------------------------------------------------------
(* Constants of the program. *)

SLOT_SHIFT == 16
SLOT_MASK_Off == 2 ^ SLOT_SHIFT
SLOT_MASK == (2 ^ SLOT_SHIFT) - 1
MAX_POOL_SIZE == 2 ^ SLOT_SHIFT
INVALID_ID == 0

----------------------------------------------------------------------------
(* Option<T>, Slot, ResourceState. *)

None == [some |-> FALSE]
Some(v) == [some |-> TRUE, val |-> v]

ResourceState == {"Initial", "Alloc", "Valid", "Failed"}
\* impl Default for ResourceState
ResourceStateDefault == "Initial"
\* #[derive(Default)] struct Slot { id, state }
SlotDefault == [id |-> 0, state |-> ResourceStateDefault]

----------------------------------------------------------------------------
(* Sequences of ids.  A sequence of ids is kept as the sequence of its     *)
(* maximal runs <<lo, hi>> of consecutive ascending ids: <<<<1, 3>>, <<7, 7>>>> *)
(* is the sequence 1, 2, 3, 7.  Every sequence has exactly one such form.    *)

\* the sequence lo, lo+1, .., hi
QOf(lo, hi) == IF lo > hi THEN <<>> ELSE <<<<lo, hi>>>>

RECURSIVE Canon(_)
\* joins neighbouring runs that continue one another
Canon(q) ==
    IF Len(q) <= 1 THEN q
    ELSE LET rest == Canon(Tail(q))
         IN  IF q[1][2] + 1 = rest[1][1]
             THEN <<<<q[1][1], rest[1][2]>>>> \o Tail(rest)
             ELSE <<q[1]>> \o rest

RECURSIVE QLen(_)
\* VecDeque::len
QLen(q) == IF q = <<>> THEN 0 ELSE (q[1][2] - q[1][1] + 1) + QLen(Tail(q))

RECURSIVE QExpand(_)
\* the ids one by one
QExpand(q) ==
    IF q = <<>> THEN <<>>
    ELSE [i \in 1 .. (q[1][2] - q[1][1] + 1) |-> q[1][1] + i - 1] \o QExpand(Tail(q))

\* VecDeque::front
QFront(q) == q[1][1]
\* VecDeque::contains
Contains(q, x) == \E i \in 1 .. Len(q) : q[i][1] <= x /\ x <= q[i][2]
\* VecDeque::push_back
PushBack(q, x) ==
    IF q # <<>> /\ q[Len(q)][2] + 1 = x
    THEN [q EXCEPT ![Len(q)] = <<q[Len(q)][1], x>>]
    ELSE Append(q, <<x, x>>)
\* the run holding the first occurrence of x
FirstIndex(q, x) ==
    CHOOSE i \in 1 .. Len(q) :
        /\ q[i][1] <= x /\ x <= q[i][2]
        /\ \A j \in 1 .. i - 1 : ~(q[j][1] <= x /\ x <= q[j][2])
\* q without its first occurrence of x
RemoveFirst(q, x) ==
    IF Contains(q, x)
    THEN Canon(SubSeq(q, 1, FirstIndex(q, x) - 1)
               \o QOf(q[FirstIndex(q, x)][1], x - 1)
               \o QOf(x + 1, q[FirstIndex(q, x)][2])
               \o SubSeq(q, FirstIndex(q, x) + 1, Len(q)))
    ELSE q
\* a plain sequence without x
Without(s, x) == SelectSeq(s, LAMBDA y : y # x)

\* Vec<Option<T>>: its length and the payloads of its Some entries
VecOfNone_Occupied(len) ==
    [len |-> len, at |-> [i \in 0 .. len - 1 |-> [slot |-> SlotDefault]]]
VecOfNone(len) == [len |-> len, at |-> <<>>]
\* v[i], for i < v.len
VecGet(v, i) == IF i \in DOMAIN v.at THEN Some(v.at[i]) ELSE None

----------------------------------------------------------------------------
(* Resource handles: Buffer, Image, Shader, Pipeline and Pass are each a   *)
(* struct with the one field `id: u32`.                                    *)

\* R::with(id): the handle wrapping a pool id
With(i) == [id |-> i]
\* handle.id()
Id(h) == h.id
\* #[derive(Default)] on the handle structs: id 0
HandleDefault == [id |-> INVALID_ID]

\* Handles a caller may present to destroy, lookup and lookup_mut: the default
\* handle, every handle a small pool can hand out, ids past the end of the
\* table, and the last id of the pool's initial free-list.
HandleArgs == {With(i) : i \in (0 .. MaxHandle) \cup {num + 1}}

----------------------------------------------------------------------------
(* Pool::new *)

\* assert!(num < MAX_POOL_SIZE); assert!(num > 0);
NewAsserts_Inclusive(n) == n <= MAX_POOL_SIZE /\ n > 0
NewAsserts(n) == n < MAX_POOL_SIZE /\ n > 0

\* for i in 1..num + 2: the first and the last i (the upper end is exclusive)
NewLoopFirst == 1
NewLoopLast_Exact(n) == (n + 1) - 1
NewLoopLast(n) == (n + 2) - 1
\* resources.push(None) once per iteration, into an empty Vec
NewResources(n) == VecOfNone(NewLoopLast(n) - NewLoopFirst + 1)
\* free_queue.push_back(i as u32) once per iteration, in ascending i; i is at most
\* MAX_POOL_SIZE, so the cast to u32 keeps its value
NewFreeQueue(n) == QOf(NewLoopFirst, NewLoopLast(n))

New(n) ==
    /\ status = "none"
    /\ num' = n
    /\ op' = "new"
    /\ arg' = None
    /\ ret' = None
    /\ IF NewAsserts(n)
       THEN /\ status' = "ok"
            /\ resources' = NewResources(n)
            /\ free_queue' = NewFreeQueue(n)
            /\ unique_counter' = 0
       ELSE /\ status' = "panic"
            /\ UNCHANGED poolVars
    /\ UNCHANGED <<debug, live, freed, nalloc, ndestroy>>

----------------------------------------------------------------------------
(* Pool::alloc: self.free_queue.pop_front().map(R::with) *)

\* what VecDeque::pop_front leaves in the queue
PopFront_Peek(q) == q
PopFront(q) == QOf(q[1][1] + 1, q[1][2]) \o Tail(q)

Alloc ==
    /\ status = "ok"
    /\ op' = "alloc"
    /\ arg' = None
    /\ IF free_queue = <<>>
       THEN /\ ret' = None
            /\ UNCHANGED <<free_queue, live, freed, nalloc>>
       ELSE /\ ret' = Some(With(QFront(free_queue)))
            /\ free_queue' = PopFront(free_queue)
            /\ live' = PushBack(live, Id(With(QFront(free_queue))))
            /\ freed' = Without(freed, With(QFront(free_queue)))
            /\ nalloc' = nalloc + 1
    /\ UNCHANGED <<status, debug, num, resources, unique_counter, ndestroy>>

----------------------------------------------------------------------------
(* Pool::destroy *)

\* self.resources[i]: a Vec index, which panics past the end
InBounds(i) == 0 <= i /\ i < resources.len

\* debug_assert_eq!(self.free_queue.contains(&handle.id()), false) fails
DoubleFreeAssertFails(h) == debug /\ Contains(free_queue, Id(h))

Panic(o, h) ==
    /\ status' = "panic"
    /\ op' = o
    /\ arg' = h
    /\ ret' = None
    /\ UNCHANGED <<debug, num, resources, free_queue, unique_counter,
                   live, freed, nalloc, ndestroy>>

Destroy(h) ==
    /\ status = "ok"
    /\ ndestroy < MaxDestroys
    /\ IF DoubleFreeAssertFails(h) \/ ~InBounds(Id(h))
       THEN Panic("destroy", h)
       ELSE /\ op' = "destroy"
            /\ arg' = h
            /\ ret' = None
            /\ ndestroy' = ndestroy + 1
            \* if let Some(ref mut r) = self.resources[..] { push_back(handle.id()) }
            /\ free_queue' = IF VecGet(resources, Id(h)).some
                             THEN PushBack(free_queue, Id(h))
                             ELSE free_queue
            /\ live' = RemoveFirst(live, Id(h))
            /\ freed' = IF Contains(live, Id(h)) THEN Append(freed, h) ELSE freed
            /\ UNCHANGED <<status, debug, num, resources, unique_counter, nalloc>>

----------------------------------------------------------------------------
(* Pool::lookup and Pool::lookup_mut *)

\* self.resources[handle.id() as usize].as_ref() / .as_mut(), index in bounds
LookupResult(h) == VecGet(resources, Id(h))

LookupCall_Requeue(o, h) ==
    /\ status = "ok"
    /\ op' = o
    /\ arg' = h
    /\ ret' = None
    /\ free_queue' = PushBack(free_queue, Id(h))
    /\ UNCHANGED <<status, debug, num, resources, unique_counter,
                   live, freed, nalloc, ndestroy>>

LookupCall(o, h) ==
    /\ status = "ok"
    /\ IF ~InBounds(Id(h))
       THEN Panic(o, h)
       ELSE /\ op' = o
            /\ arg' = h
            /\ ret' = LookupResult(h)
            /\ UNCHANGED <<status, debug, num, resources, free_queue, unique_counter,
                           live, freed, nalloc, ndestroy>>

Lookup(h) == LookupCall("lookup", h)
LookupMut(h) == LookupCall("lookup_mut", h)

----------------------------------------------------------------------------
(* The 32-bit resource id: a 16-bit pool index in the lower bits and a      *)
(* 16-bit unique counter in the upper bits.  A u32 is a vector of 32 bits,  *)
(* bit 0 the lowest, so that ids of 2^31 and more are values of the model.  *)

BitIdx == 0 .. 31

\* the u32 of a natural below 2^31 (bit 31 of such a number is 0)
ToBits(n) == [k \in BitIdx |-> IF k < 31 THEN (n \div (2 ^ k)) % 2 ELSE 0]
\* the u32 whose upper half is hi and whose lower half is lo (hi, lo < 2^16)
Halves(hi, lo) == [k \in BitIdx |-> IF k < 16 THEN (lo \div (2 ^ k)) % 2
                                             ELSE (hi \div (2 ^ (k - 16))) % 2]
\* x << s on u32: bits shifted past bit 31 are dropped
Shl(x, s) == [k \in BitIdx |-> IF k >= s THEN x[k - s] ELSE 0]
\* x >> s on u32
Shr(x, s) == [k \in BitIdx |-> IF k + s <= 31 THEN x[k + s] ELSE 0]
\* x | y and x & y
BitOr(x, y) == [k \in BitIdx |-> IF x[k] = 1 \/ y[k] = 1 THEN 1 ELSE 0]
BitAnd(x, y) == [k \in BitIdx |-> IF x[k] = 1 /\ y[k] = 1 THEN 1 ELSE 0]

RECURSIVE LowBits(_, _)
\* the number made of bits 0 .. w-1 of x
LowBits(x, w) == IF w = 0 THEN 0 ELSE LowBits(x, w - 1) + x[w - 1] * (2 ^ (w - 1))
\* x as u16
AsU16(x) == LowBits(x, 16)

\* encode(index: u16, unique: u16) -> u32: (unique as u32) << 16 | (index as u32)
Encode(index, unique) == BitOr(Shl(ToBits(unique), SLOT_SHIFT), ToBits(index))
\* decode(id: u32) -> (index, unique): (id & SLOT_MASK, id >> SLOT_SHIFT)
Decode(x) == <<AsU16(BitAnd(x, ToBits(SLOT_MASK))), AsU16(Shr(x, SLOT_SHIFT))>>
\* is_valid(id): id != 0
IsValid(x) == x # ToBits(INVALID_ID)

\* the pool index and the unique tag a handle carries
Index(h) == Decode(ToBits(Id(h)))[1]
Unique(h) == Decode(ToBits(Id(h)))[2]

\* ResourceState of the slot a handle addresses; an unoccupied slot is Initial
SlotState(h) ==
    IF InBounds(Id(h)) /\ VecGet(resources, Id(h)).some
    THEN VecGet(resources, Id(h)).val.slot.state
    ELSE ResourceStateDefault

----------------------------------------------------------------------------
(* The pool from construction on. *)

\* Capacities given to Pool::new: the small ones and the two just past the limit.
NewArgs == (0 .. MaxNum) \cup {MAX_POOL_SIZE, MAX_POOL_SIZE + 1}

Init ==
    /\ status = "none"
    /\ debug \in BOOLEAN
    /\ num = 0
    /\ resources = VecOfNone(0)
    /\ free_queue = <<>>
    /\ unique_counter = 0
    /\ live = <<>>
    /\ freed = <<>>
    /\ nalloc = 0
    /\ ndestroy = 0
    /\ op = "init"
    /\ arg = None
    /\ ret = None

DoNew == \E n \in NewArgs : New(n)
DoDestroy == \E h \in HandleArgs : Destroy(h)
DoLookup == \E h \in HandleArgs : Lookup(h)
DoLookupMut == \E h \in HandleArgs : LookupMut(h)

Next == DoNew \/ Alloc \/ DoDestroy \/ DoLookup \/ DoLookupMut

Spec == Init /\ [][Next]_vars

----------------------------------------------------------------------------
(* Pool::new alone, over the small capacities and those around the limit. *)

NewArgsWide ==
    (0 .. MaxNewNum) \cup ((MAX_POOL_SIZE - NewMargin) .. (MAX_POOL_SIZE + NewMargin))

DoNewWide == \E n \in NewArgsWide : New(n)

SpecNew == Init /\ [][DoNewWide]_vars

----------------------------------------------------------------------------
(* The pool after Pool::new(n) and k alloc calls that returned a handle,   *)
(* with no other call made: ids 1 .. k are out, in that order, and          *)
(* k+1 .. n+1 are left in the free-list.  SpecDrained starts from the       *)
(* pools that have between 1 and MaxRemaining ids left.                     *)

DrainedNums == (1 .. MaxNum) \cup {MAX_POOL_SIZE - 1}

Drained(n, k) ==
    /\ status = "ok"
    /\ num = n
    /\ resources = NewResources(n)
    /\ free_queue = QOf(NewLoopFirst + k, NewLoopLast(n))
    /\ unique_counter = 0
    /\ live = QOf(NewLoopFirst, NewLoopFirst + k - 1)
    /\ freed = <<>>
    /\ nalloc = k
    /\ ndestroy = 0
    /\ op = IF k = 0 THEN "new" ELSE "alloc"
    /\ arg = None
    /\ ret = IF k = 0 THEN None ELSE Some(With(NewLoopFirst + k - 1))

InitDrained ==
    /\ debug \in BOOLEAN
    /\ \E n \in DrainedNums :
         \E k \in 0 .. n :
            /\ n + 1 - k <= MaxRemaining
            /\ Drained(n, k)

NextDrained == Alloc \/ DoDestroy \/ DoLookup \/ DoLookupMut

SpecDrained == InitDrained /\ [][NextDrained]_vars

----------------------------------------------------------------------------
(* The id encoding alone, applied to 16-bit fields and to 32-bit ids.      *)

U16Samples ==
    (0 .. Edge) \cup ((2 ^ 8 - Edge) .. (2 ^ 8 + Edge))
                \cup ((2 ^ 15 - Edge) .. (2 ^ 15 + Edge))
                \cup ((2 ^ 16 - 1 - Edge) .. (2 ^ 16 - 1))

CodecInputs ==
    {[kind |-> "fields", index |-> i, unique |-> u] : i \in U16Samples, u \in U16Samples}
    \cup {[kind |-> "id", id |-> Halves(hi, lo)] : hi \in U16Samples, lo \in U16Samples}

InitCodec ==
    /\ status = "none"
    /\ debug = FALSE
    /\ num = 0
    /\ resources = VecOfNone(0)
    /\ free_queue = <<>>
    /\ unique_counter = 0
    /\ live = <<>>
    /\ freed = <<>>
    /\ nalloc = 0
    /\ ndestroy = 0
    /\ op = "input"
    /\ arg \in CodecInputs
    /\ ret = None

\* decode(encode(index, unique))
EncodeDecode ==
    /\ op = "input"
    /\ arg.kind = "fields"
    /\ op' = "encode_decode"
    /\ ret' = Decode(Encode(arg.index, arg.unique))
    /\ UNCHANGED <<status, debug, num, resources, free_queue, unique_counter,
                   live, freed, nalloc, ndestroy, arg>>

\* encode(decode(id))
DecodeEncode ==
    /\ op = "input"
    /\ arg.kind = "id"
    /\ op' = "decode_encode"
    /\ ret' = Encode(Decode(arg.id)[1], Decode(arg.id)[2])
    /\ UNCHANGED <<status, debug, num, resources, free_queue, unique_counter,
                   live, freed, nalloc, ndestroy, arg>>

NextCodec == EncodeDecode \/ DecodeEncode

SpecCodec == InitCodec /\ [][NextCodec]_vars

----------------------------------------------------------------------------
(* The pure functions of the crate: PixelFormat::bytesize, row_pitch and    *)
(* surface_pitch, and Action::mtl_load_action of the Metal backend.  Widths *)
(* and heights are small, so no usize product overflows here.               *)

MaxWidth == 9
MaxHeight == 5

PixelFormat ==
    {"None", "RGBA8", "RGB8", "RGBA4", "R5G6B5", "R5G5B5A1", "R10G10B10A2",
     "RGBA32F", "RGBA16F", "R32F", "R16F", "L8", "DXT1", "DXT3", "DXT5",
     "Depth", "DepthStencil", "PVRTC2_RGB", "PVRTC4_RGB", "PVRTC2_RGBA",
     "PVRTC4_RGBA", "ETC2_RGB8", "ETC2_SRGB8"}

\* a returned value, and the panic of unreachable!()
Returned(v) == [panic |-> FALSE, val |-> v]
Unreachable == [panic |-> TRUE]

\* ::std::cmp::max
Max(a, b) == IF a >= b THEN a ELSE b

bytesize(self) ==
    CASE self = "RGBA32F" -> Returned(16)
      [] self = "RGBA16F" -> Returned(8)
      [] self \in {"RGBA8", "R10G10B10A2", "R32F"} -> Returned(4)
      [] self = "RGB8" -> Returned(3)
      [] self \in {"R5G5B5A1", "R5G6B5", "RGBA4", "R16F"} -> Returned(2)
      [] self = "L8" -> Returned(1)
      [] OTHER -> Unreachable

\* the arms of row_pitch for the block-compressed formats
BlockPitch(width, bytes) ==
    IF ((width + 3) \div 4) * bytes < bytes THEN bytes
    ELSE ((width + 3) \div 4) * bytes
PvrtcPitch(width, block_size, bpp) ==
    Max(2, width \div 4) * ((block_size * bpp) \div 8)

row_pitch(self, width) ==
    CASE self \in {"DXT1", "ETC2_RGB8", "ETC2_SRGB8"} -> Returned(BlockPitch(width, 8))
      [] self \in {"DXT3", "DXT5"} -> Returned(BlockPitch(width, 16))
      [] self \in {"PVRTC4_RGB", "PVRTC4_RGBA"} -> Returned(PvrtcPitch(width, 4 * 4, 4))
      [] self \in {"PVRTC2_RGB", "PVRTC2_RGBA"} -> Returned(PvrtcPitch(width, 8 * 4, 2))
      [] OTHER -> IF bytesize(self).panic THEN Unreachable
                  ELSE Returned(width * bytesize(self).val)

\* num_rows of surface_pitch
NumRows(self, height) ==
    IF self \in {"DXT1", "DXT3", "DXT5", "ETC2_RGB8", "ETC2_SRGB8",
                 "PVRTC2_RGB", "PVRTC2_RGBA", "PVRTC4_RGB", "PVRTC4_RGBA"}
    THEN (height + 3) \div 4
    ELSE height

surface_pitch(self, width, height) ==
    IF row_pitch(self, width).panic THEN Unreachable
    ELSE Returned(Max(1, NumRows(self, height)) * row_pitch(self, width).val)

\* enum Action, and MTLLoadAction of the metal crate
Action == {"Clear", "Load", "DontCare"}
MTLLoadAction == {"MTLLoadAction::Clear", "MTLLoadAction::Load", "MTLLoadAction::DontCare"}

mtl_load_action(self) ==
    CASE self = "Clear" -> "MTLLoadAction::Clear"
      [] self = "Load" -> "MTLLoadAction::Load"
      [] self = "DontCare" -> "MTLLoadAction::Clear"

FunctionInputs ==
    {[kind |-> "format", format |-> f, width |-> w, height |-> h] :
        f \in PixelFormat, w \in 0 .. MaxWidth, h \in 0 .. MaxHeight}
    \cup {[kind |-> "action", action |-> a] : a \in Action}

InitFunctions ==
    /\ status = "none"
    /\ debug = FALSE
    /\ num = 0
    /\ resources = VecOfNone(0)
    /\ free_queue = <<>>
    /\ unique_counter = 0
    /\ live = <<>>
    /\ freed = <<>>
    /\ nalloc = 0
    /\ ndestroy = 0
    /\ op = "input"
    /\ arg \in FunctionInputs
    /\ ret = None

\* a call of a pure function on the input: it returns or it panics
FunctionCall(o, r) ==
    /\ op' = o
    /\ ret' = r
    /\ status' = IF r.panic THEN "panic" ELSE "ok"
    /\ UNCHANGED <<debug, num, resources, free_queue, unique_counter,
                   live, freed, nalloc, ndestroy, arg>>

RowPitch ==
    /\ op = "input" /\ arg.kind = "format"
    /\ FunctionCall("row_pitch", row_pitch(arg.format, arg.width))

SurfacePitch ==
    /\ op = "input" /\ arg.kind = "format"
    /\ FunctionCall("surface_pitch", surface_pitch(arg.format, arg.width, arg.height))

MtlLoadAction ==
    /\ op = "input" /\ arg.kind = "action"
    /\ FunctionCall("mtl_load_action", Returned(mtl_load_action(arg.action)))

NextFunctions == RowPitch \/ SurfacePitch \/ MtlLoadAction

SpecFunctions == InitFunctions /\ [][NextFunctions]_vars

----------------------------------------------------------------------------
(* Properties. *)

\* the last call was an alloc that returned a handle / returned None
AllocReturnedHandle == status = "ok" /\ op = "alloc" /\ ret.some
AllocReturnedNone == status = "ok" /\ op = "alloc" /\ ~ret.some
\* the last call was a destroy of a handle that was live
DestroyedLive ==
    status = "ok" /\ op = "destroy" /\ freed # <<>> /\ freed[Len(freed)] = arg

\* C1: on a pool built by Pool::new(n) with no destroy call made, exactly n
\* consecutive alloc calls return a handle and the (n+1)-th returns None:
\* an alloc that returns a handle is at most the n-th, and an alloc that
\* returns None comes after exactly n handles.
C1_ExactlyNAllocs ==
    ndestroy = 0 =>
        /\ AllocReturnedHandle => nalloc <= num
        /\ AllocReturnedNone => nalloc = num

\* C2: Pool::new(n) panics and produces no pool when n = 0 or n >= MAX_POOL_SIZE,
\* and produces a pool for every n with 0 < n < MAX_POOL_SIZE.
C2_NewCapacityCheck ==
    op = "new" =>
        /\ (num = 0 \/ num >= 65536) =>
              status = "panic" /\ resources.len = 0 /\ free_queue = <<>>
        /\ (0 < num /\ num < 65536) =>
              status = "ok" /\ resources.len > 0 /\ free_queue # <<>>

\* C2 witness: the largest accepted capacity has produced a pool.
C2_Witness == op = "new" /\ status = "ok" /\ num = 65535

\* C3: when a live handle h is destroyed and the free-list can hold no index
\* but h's, the alloc made next returns a handle h2 with h's slot index, and
\* then lookup(h) is None while lookup(h2) succeeds.
C3_DanglingDetection ==
    [][(/\ DestroyedLive
        /\ \A i \in 1 .. Len(free_queue) : free_queue[i] = <<Index(arg), Index(arg)>>
        /\ op' = "alloc")
       => (/\ ret'.some
           /\ Index(ret'.val) = Index(arg)
           /\ ~VecGet(resources', Id(arg)).some
           /\ VecGet(resources', Id(ret'.val)).some)]_vars

\* C4: no two handles that are live at the same time decode to the same
\* (index, unique) pair, and no two of them share a slot index.
C4_LiveHandlesUnique ==
    \A i, j \in 1 .. QLen(live) :
        i # j => /\ Decode(ToBits(QExpand(live)[i])) # Decode(ToBits(QExpand(live)[j]))
                 /\ Index(With(QExpand(live)[i])) # Index(With(QExpand(live)[j]))

\* C4 witness: two handles are live at once after another has been destroyed.
C4_Witness == status = "ok" /\ QLen(live) >= 2 /\ freed # <<>>

\* C5: after n >= 3 handles were allocated from a pool of capacity n and the
\* handles with indices 3, 1, 2 were destroyed in that order, the next alloc
\* calls return indices 3, 1, 2 in that order; the first of them returns a
\* handle with index 3.
C5_FifoReuse ==
    [][(/\ status = "ok"
        /\ num >= 3
        /\ nalloc = num
        /\ freed = <<With(3), With(1), With(2)>>
        /\ op' = "alloc")
       => (ret'.some /\ Index(ret'.val) = 3)]_vars

\* C6: id 0 is never valid, the default handle has id 0, no alloc returns a
\* handle whose id is 0 or whose slot index is 0, and index 0 is never in the
\* free-list.
C6_InvalidSentinel ==
    /\ ~IsValid(ToBits(0))
    /\ Id(HandleDefault) = 0
    /\ AllocReturnedHandle => (Id(ret.val) # 0 /\ Index(ret.val) # 0)
    /\ ~Contains(free_queue, 0)

\* C7: decode(encode(index, unique)) = (index, unique) for 16-bit index and
\* unique, and encode(decode(id)) = id for every 32-bit id.
C7_RoundTrip ==
    /\ op = "encode_decode" => ret = <<arg.index, arg.unique>>
    /\ op = "decode_encode" => ret = arg.id

\* C7 witness: the fields 65535, 65535 went through encode and decode.
C7_Witness ==
    op = "encode_decode" /\ arg.index = 65535 /\ arg.unique = 65535 /\ ret = <<65535, 65535>>

\* C8: the slot of a handle just returned by alloc is in state Alloc.
C8_AllocatedSlotIsAlloc ==
    AllocReturnedHandle => SlotState(ret.val) = "Alloc"

\* C9: destroy of a live handle returns its slot to Initial and puts its index
\* back on the free-list.
C9_DestroyReenqueues ==
    DestroyedLive =>
        /\ SlotState(arg) = "Initial"
        /\ Contains(free_queue, Index(arg))

\* the last call was a lookup or a lookup_mut
LookupCalled == op \in {"lookup", "lookup_mut"}

\* C11: lookup and lookup_mut are total: for every handle value, also one whose
\* index is outside the slot table, they return (None) and do not panic.
C11_LookupTotal == LookupCalled => status = "ok"

\* C12: alloc on a pool whose free-list is empty returns None without a panic
\* and leaves resources, free_queue and unique_counter as they were; and after
\* a live handle is destroyed on such a pool (the free-list then holds no
\* index but that handle's), the next alloc returns a handle again.
C12_ExhaustionRecoverable ==
    /\ [][(status = "ok" /\ free_queue = <<>> /\ op' = "alloc")
          => (status' = "ok" /\ ret' = None /\ UNCHANGED poolVars)]_vars
    /\ [][(/\ DestroyedLive
           /\ \A i \in 1 .. Len(free_queue) : free_queue[i] = <<Id(arg), Id(arg)>>
           /\ op' = "alloc")
          => (status' = "ok" /\ ret'.some)]_vars

\* C13: a slot index in 1 .. capacity is in free_queue iff that slot's state
\* is Initial (the slot is unoccupied).
C13_FreeIffInitial ==
    status = "ok" =>
        \A i \in 1 .. num :
            Contains(free_queue, i) <=> SlotState(With(i)) = "Initial"

\* the handles destroyed while live (and not handed out again since)
Freed == {freed[i] : i \in 1 .. Len(freed)}

\* C14: a double free is caught.  In a build with debug assertions, destroy of
\* a handle whose id is in the free-list panics and enqueues nothing, and so
\* does a second destroy of a handle that alloc returned.
C14_DoubleFreeCaught ==
    /\ [][(status = "ok" /\ debug /\ op' = "destroy"
           /\ Contains(free_queue, Id(arg')))
          => (status' = "panic" /\ free_queue' = free_queue)]_vars
    /\ [][(status = "ok" /\ debug /\ op' = "destroy" /\ arg' \in Freed)
          => (status' = "panic" /\ free_queue' = free_queue)]_vars

\* C15: once a live handle h was destroyed, lookup(h) and lookup_mut(h) return
\* None in every later state.
C15_StaleStaysDead ==
    /\ \A h \in Freed : InBounds(Id(h)) /\ LookupResult(h) = None
    /\ (LookupCalled /\ arg \in Freed) => (status = "ok" /\ ret = None)

\* a destroyed handle was looked up after a later alloc, and gave None
C15_Witness ==
    /\ status = "ok" /\ op = "lookup" /\ ret = None
    /\ Len(freed) = 1 /\ arg = freed[1]
    /\ nalloc >= 2 /\ live # <<>>

\* C16: an alloc on a non-empty free-list pops the head of the free-list,
\* increments unique_counter by one, returns the handle that decodes to
\* (popped index, new unique_counter), and leaves the slot in state Alloc with
\* no payload.
C16_AllocStep ==
    /\ [][(status = "ok" /\ free_queue # <<>> /\ op' = "alloc")
          => (/\ status' = "ok" /\ ret'.some
              /\ free_queue' = PopFront(free_queue)
              /\ unique_counter' = unique_counter + 1
              /\ Index(ret'.val) = QFront(free_queue)
              /\ Unique(ret'.val) = unique_counter' % (2 ^ SLOT_SHIFT)
              /\ resources' = resources)]_vars
    /\ [](AllocReturnedHandle => SlotState(ret.val) = "Alloc")

\* C17: Pool::new(capacity) yields a slot table of exactly capacity + 1 slots,
\* all None, a free-list of the indices 1 ..= capacity + 1 in ascending order
\* (index 0 is not in it), and unique_counter 0.
C17_NewState ==
    (op = "new" /\ status = "ok") =>
        /\ resources.len = num + 1
        /\ \A i \in 0 .. num : ~VecGet(resources, i).some
        /\ free_queue = <<<<1, num + 1>>>>
        /\ QLen(free_queue) = num + 1
        /\ ~Contains(free_queue, INVALID_ID)
        /\ unique_counter = 0

\* Pool::new(16), the default pool size of the crate, has built its pool
C17_Witness ==
    /\ op = "new" /\ status = "ok" /\ num = 16
    /\ resources.len = 17 /\ QExpand(free_queue) = [i \in 1 .. 17 |-> i]

\* C18: a handle that alloc returned and that was not destroyed since is
\* looked up without a panic and resolves to its slot, which is in state Alloc.
C18_LiveHandleResolves ==
    (LookupCalled /\ Contains(live, Id(arg))) =>
        (status = "ok" /\ ret.some /\ SlotState(arg) = "Alloc")

\* C19: destroy of a handle whose slot is in use appends the slot's index at
\* the tail of the free-list and leaves the slot without payload; no other
\* slot changes and unique_counter does not change.
C19_DestroyStep ==
    [][(status = "ok" /\ op' = "destroy"
        /\ Contains(live, Id(arg')) /\ InBounds(Id(arg')))
       => (/\ status' = "ok"
           /\ free_queue' = PushBack(free_queue, Id(arg'))
           /\ resources'.len = resources.len
           /\ \A i \in 0 .. resources.len - 1 :
                 VecGet(resources', i) =
                     IF i = Id(arg') THEN None ELSE VecGet(resources, i)
           /\ unique_counter' = unique_counter)]_vars

\* C20: in a build without debug assertions, destroy of the invalid handle
\* (id 0), of a handle already destroyed, or of a handle whose index is outside
\* the slot table does not panic and leaves resources, free_queue and
\* unique_counter as they were.
C20_DestroyNoOp ==
    [][(status = "ok" /\ ~debug /\ op' = "destroy"
        /\ (Id(arg') = INVALID_ID \/ arg' \in Freed \/ ~InBounds(Id(arg'))))
       => (status' = "ok" /\ UNCHANGED poolVars)]_vars

\* C25: mtl_load_action maps every Action to the MTLLoadAction of the same
\* name (Clear to Clear, Load to Load, DontCare to DontCare), so distinct
\* Actions map to distinct MTLLoadAction values.
C25_LoadActionEquivalent ==
    op = "mtl_load_action" =>
        /\ ret.val \in MTLLoadAction
        /\ ret.val = CASE arg.action = "Clear" -> "MTLLoadAction::Clear"
                       [] arg.action = "Load" -> "MTLLoadAction::Load"
                       [] arg.action = "DontCare" -> "MTLLoadAction::DontCare"
        /\ \A b \in Action : b # arg.action => mtl_load_action(b) # ret.val

\* C29: row_pitch and surface_pitch return a value, without a panic, for
\* every PixelFormat and every width and height.
C29_PitchTotal ==
    op \in {"row_pitch", "surface_pitch"} => (status = "ok" /\ ~ret.panic)

\* C24: the tag of a handle is the 16-bit truncation of unique_counter, which
\* counts the allocations made on the pool, so that allocations fewer than
\* 65536 apart get different tags.
C24_TagIsTruncatedCounter ==
    AllocReturnedHandle =>
        /\ unique_counter = nalloc
        /\ Unique(ret.val) = unique_counter % (2 ^ SLOT_SHIFT)

\* C26: every entry of free_queue is an index i with 1 <= i < resources.len(),
\* and no index is in free_queue twice.
C26_FreeQueueWellFormed ==
    status = "ok" =>
        /\ \A k \in 1 .. Len(free_queue) :
              1 <= free_queue[k][1] /\ free_queue[k][2] < resources.len
        /\ \A j, k \in 1 .. QLen(free_queue) :
              j # k => QExpand(free_queue)[j] # QExpand(free_queue)[k]

\* C27: slot conservation: the number of indices in free_queue plus the number
\* of live handles equals the capacity of the pool.
C27_SlotConservation ==
    status = "ok" => QLen(free_queue) + QLen(live) = num

\* C28: alloc returns None only when (at least) capacity handles are live.
C28_NoneOnlyWhenFull ==
    AllocReturnedNone => QLen(live) >= num

\* C30: lookup and lookup_mut leave free_queue, unique_counter and the
\* occupancy of every slot as they were, whatever the handle, and whether
\* they return or panic.
C30_LookupFrame ==
    [][(op' \in {"lookup", "lookup_mut"})
       => (/\ free_queue' = free_queue
           /\ unique_counter' = unique_counter
           /\ resources'.len = resources.len
           /\ \A i \in 0 .. resources.len - 1 :
                 VecGet(resources', i).some = VecGet(resources, i).some)]_vars

\* lookup_mut of a live handle has returned, with handles live and indices free
C30_Witness ==
    /\ status = "ok" /\ op = "lookup_mut"
    /\ Contains(live, Id(arg))
    /\ free_queue # <<>>

====
